---- MODULE Spec2Model ----
(***************************************************************************)
(* A model of mongoprofile.py: the session harness MongoProfiler           *)
(* (__enter__, __exit__, _setup_ts_diff, get_records, mark) and the        *)
(* classifier parse_record with its seven compiled patterns, the option    *)
(* fragment parser and the integer coercion pass.                          *)
(*                                                                         *)
(* Text is modelled character by character: a Python string is a sequence  *)
(* of one-character strings.  A Python dict is a function from its keys    *)
(* (texts) to tagged values.                                               *)
(***************************************************************************)
EXTENDS Integers, Sequences, FiniteSets, TLC

(***************************************************************************)
(* Text helpers                                                            *)
(***************************************************************************)
SetMax(S) == CHOOSE x \in S : \A y \in S : y <= x
SetMin(S) == CHOOSE x \in S : \A y \in S : x <= y

\* the characters str.strip() and str.split() treat as whitespace
Whitespace == {" ", "\n", "\t"}

Digits == <<"0", "1", "2", "3", "4", "5", "6", "7", "8", "9">>
DigitChars == {Digits[i] : i \in 1..10}
DigitValue(ch) == (CHOOSE i \in 1..10 : Digits[i] = ch) - 1

\* the keys of the dicts the program builds
k_info == <<"i", "n", "f", "o">>
k_ts == <<"t", "s">>
k_ts_diff == <<"t", "s", "_", "d", "i", "f", "f">>
k_db == <<"d", "b">>
k_collection == <<"c", "o", "l", "l", "e", "c", "t", "i", "o", "n">>
k_query == <<"q", "u", "e", "r", "y">>
k_command == <<"c", "o", "m", "m", "a", "n", "d">>
k_ntoreturn == <<"n", "t", "o", "r", "e", "t", "u", "r", "n">>
k_text == <<"t", "e", "x", "t">>
k_options == <<"o", "p", "t", "i", "o", "n", "s">>
k_options1 == <<"o", "p", "t", "i", "o", "n", "s", "1">>
k_options2 == <<"o", "p", "t", "i", "o", "n", "s", "2">>
k_millis == <<"m", "i", "l", "l", "i", "s">>

\* the literal pieces of the patterns
w_query_sp == <<"q", "u", "e", "r", "y", " ">>
w_dot == <<".">>
w_sp == <<" ">>
w_nl == <<"\n">>
w_lbrace == <<"{">>
w_rbrace == <<"}">>
w_cmd == <<"$", "c", "m", "d", " ", "n", "t", "o", "r", "e", "t", "u", "r", "n", ":">>
w_command == <<" ", "c", "o", "m", "m", "a", "n", "d", ":", " ">>
w_query_colon == <<"q", "u", "e", "r", "y", ":", " ">>
w_getmore == <<"g", "e", "t", "m", "o", "r", "e", " ">>
w_getMore == <<" ", "g", "e", "t", "M", "o", "r", "e", ":", " ">>
w_marker == <<"p", "h", "o", "n", "y", "_", "m", "o", "n", "g", "o", "p", "r", "o", "f", "i", "l", "e", "_", "m", "a", "r", "k", "e", "r">>
w_marker_q == <<"q", "u", "e", "r", "y", ":", " ", "{", " ", "$", "q", "u", "e", "r", "y", ":", " ", "{", " ", "t", "e", "x", "t", ":", " ", "\"">>
w_marker_end == <<"\"", " ", "}", " ", "}">>
w_insert == <<"i", "n", "s", "e", "r", "t", " ">>
w_update == <<"u", "p", "d", "a", "t", "e", " ">>
w_remove == <<"r", "e", "m", "o", "v", "e", " ">>
w_sp_query == <<" ", " ", "q", "u", "e", "r", "y", ":", " ">>

(***************************************************************************)
(* Regular expressions (module re): a pattern is a sequence of atoms,      *)
(*   lit    a literal piece of text w                                      *)
(*   plus   cls+   (greedy, at least one)                                  *)
(*   star   cls*   (greedy)                                                *)
(*   lazy   cls*?  (non-greedy)                                            *)
(*   open / close   the start and the end of the named group g             *)
(* with the character classes  dot '.' (anything but a newline, the        *)
(* patterns are compiled without DOTALL), notdot '[^.]', notsp '[^ ]',     *)
(* digit '\d'.                                                             *)
(***************************************************************************)
Lit(w) == <<[a |-> "lit", c |-> "", w |-> w, g |-> <<>>]>>
Rep(kind, cls) == <<[a |-> kind, c |-> cls, w |-> <<>>, g |-> <<>>]>>
Grp(name, p) ==
    <<[a |-> "open", c |-> "", w |-> <<>>, g |-> name]>> \o p
    \o <<[a |-> "close", c |-> "", w |-> <<>>, g |-> name]>>

InClass(cls, ch) ==
    CASE cls = "dot" -> ch # "\n"
      [] cls = "notdot" -> ch # "."
      [] cls = "notsp" -> ch # " "
      [] cls = "digit" -> ch \in DigitChars

\* the length of the longest run of characters of class cls in s from pos
Run(cls, s, pos) ==
    SetMin({k \in pos..Len(s) : ~InClass(cls, s[k])} \cup {Len(s) + 1}) - pos

\* of the tries <<n, result>>, the result of the successful try with the least n
\* (or, when longest, the greatest n); <<>> when no try succeeded
Preferred(tries, longest) ==
    LET ok == {t \in tries : t[2] # <<>>}
    IN IF ok = {} THEN <<>>
       ELSE IF longest THEN (CHOOSE t \in ok : \A q \in ok : t[1] >= q[1])[2]
       ELSE (CHOOSE t \in ok : \A q \in ok : t[1] <= q[1])[2]

Cons(pos, r) == IF r = <<>> THEN <<>> ELSE <<pos>> \o r

\* The backtracking matcher: atoms i.. of pat against s from position pos.
\* The result is <<>> when there is no match, and otherwise the position at
\* which each atom i, i+1, ... starts, followed by the position after the match.
\* A greedy quantifier takes the longest run that lets the rest match, a lazy
\* one the shortest.
RECURSIVE MatchAt(_, _, _, _)
MatchAt(pat, i, s, pos) ==
    IF i > Len(pat) THEN <<pos>>
    ELSE IF pat[i].a = "lit" THEN
        IF pos + Len(pat[i].w) - 1 <= Len(s)
           /\ SubSeq(s, pos, pos + Len(pat[i].w) - 1) = pat[i].w
        THEN Cons(pos, MatchAt(pat, i + 1, s, pos + Len(pat[i].w)))
        ELSE <<>>
    ELSE IF pat[i].a \in {"open", "close"} THEN Cons(pos, MatchAt(pat, i + 1, s, pos))
    ELSE Cons(pos,
           Preferred({<<n, MatchAt(pat, i + 1, s, pos + n)>> :
                        n \in (IF pat[i].a = "plus" THEN 1 ELSE 0)..Run(pat[i].c, s, pos)},
                     pat[i].a # "lazy"))

\* regex.search(info): the match at the leftmost position that has one
Search(pat, s) ==
    Preferred({<<p, MatchAt(pat, 1, s, p)>> : p \in 1..(Len(s) + 1)}, FALSE)

GroupNames(pat) == {pat[i].g : i \in {j \in 1..Len(pat) : pat[j].a = "open"}}

\* match.groupdict(): every named group with the text it captured
GroupDict(pat, s, m) ==
    [name \in GroupNames(pat) |->
        LET o == CHOOSE i \in 1..Len(pat) : pat[i].a = "open" /\ pat[i].g = name
            c == CHOOSE i \in 1..Len(pat) : pat[i].a = "close" /\ pat[i].g = name
        IN SubSeq(s, m[o], m[c] - 1)]

_re_command_record ==
    Lit(w_query_sp) \o Grp(k_db, Rep("plus", "notdot")) \o Lit(w_dot) \o Lit(w_cmd)
    \o Grp(k_ntoreturn, Rep("plus", "digit")) \o Lit(w_command)
    \o Grp(k_command, Lit(w_lbrace) \o Rep("star", "dot") \o Lit(w_rbrace))
    \o Lit(w_sp) \o Grp(k_options, Rep("star", "dot"))

_re_query_record ==
    Lit(w_query_sp) \o Grp(k_db, Rep("plus", "notdot")) \o Lit(w_dot)
    \o Grp(k_collection, Rep("plus", "notsp")) \o Lit(w_sp)
    \o Grp(k_options1, Rep("star", "dot")) \o Lit(w_nl) \o Lit(w_query_colon)
    \o Grp(k_query, Lit(w_lbrace) \o Rep("star", "dot") \o Lit(w_rbrace))
    \o Lit(w_sp) \o Grp(k_options2, Rep("star", "dot"))

_re_getmore_record ==
    Lit(w_getmore) \o Grp(k_db, Rep("plus", "notdot")) \o Lit(w_dot)
    \o Grp(k_collection, Rep("plus", "notsp")) \o Lit(w_sp)
    \o Grp(k_options1, Rep("lazy", "dot")) \o Lit(w_getMore)
    \o Grp(k_query, Lit(w_lbrace) \o Rep("star", "dot") \o Lit(w_rbrace))
    \o Grp(k_options2, Rep("star", "dot"))

_re_marker_record ==
    Lit(w_query_sp) \o Grp(k_db, Rep("plus", "notdot")) \o Lit(w_dot) \o Lit(w_marker)
    \o Rep("star", "dot") \o Lit(w_nl) \o Lit(w_marker_q)
    \o Grp(k_text, Rep("star", "dot")) \o Lit(w_marker_end)

_re_insert_record ==
    Lit(w_insert) \o Grp(k_db, Rep("plus", "notdot")) \o Lit(w_dot)
    \o Grp(k_collection, Rep("plus", "notsp"))

_re_update_record ==
    Lit(w_update) \o Grp(k_db, Rep("plus", "notdot")) \o Lit(w_dot)
    \o Grp(k_collection, Rep("plus", "notsp")) \o Lit(w_sp_query)
    \o Grp(k_query, Lit(w_lbrace) \o Rep("star", "dot") \o Lit(w_rbrace))
    \o Grp(k_options, Rep("star", "dot"))

_re_remove_record ==
    Lit(w_remove) \o Grp(k_db, Rep("plus", "notdot")) \o Lit(w_dot)
    \o Grp(k_collection, Rep("plus", "notsp")) \o Lit(w_sp_query)
    \o Grp(k_query, Lit(w_lbrace) \o Rep("star", "dot") \o Lit(w_rbrace))
    \o Grp(k_options, Rep("star", "dot"))

(***************************************************************************)
(* Python values.  Every value carries a type tag t; s is the text of a    *)
(* str, n the value of an int (or the whole seconds of a float), and a     *)
(* datetime is day d, second of the day n and microsecond u.               *)
(***************************************************************************)
Str(s) == [t |-> "str", s |-> s, n |-> 0, d |-> 0, u |-> 0]
IntVal(n) == [t |-> "int", s |-> <<>>, n |-> n, d |-> 0, u |-> 0]
True == [t |-> "bool", s |-> <<>>, n |-> 1, d |-> 0, u |-> 0]
Datetime(d, sec, us) == [t |-> "datetime", s |-> <<>>, n |-> sec, d |-> d, u |-> us]
\* the float  sec + us / 1e6
Float(sec, us) == [t |-> "float", s |-> <<>>, n |-> sec, d |-> 0, u |-> us]

EmptyDict == [k \in {} |-> True]
\* dict.update(other)
Update(f, other) ==
    [k \in DOMAIN f \cup DOMAIN other |-> IF k \in DOMAIN other THEN other[k] ELSE f[k]]
\* the dict without key k (dict.pop(k) leaves it)
Without(f, k) == [x \in DOMAIN f \ {k} |-> f[x]]

\* str.strip()
Strip(s) ==
    LET keep == {i \in 1..Len(s) : s[i] \notin Whitespace}
    IN IF keep = {} THEN <<>> ELSE SubSeq(s, SetMin(keep), SetMax(keep))

\* str.split(): the maximal runs of characters that are not whitespace
RECURSIVE SplitFrom(_, _)
SplitFrom(s, pos) ==
    LET begins == {i \in pos..Len(s) : s[i] \notin Whitespace}
    IN IF begins = {} THEN <<>>
       ELSE LET b == SetMin(begins)
                ends == {j \in b..Len(s) : j = Len(s) \/ s[j + 1] \in Whitespace}
                e == SetMin(ends)
            IN <<SubSeq(s, b, e)>> \o SplitFrom(s, e + 1)
Split(s) == SplitFrom(s, 1)

StartsWith(s, prefix) == Len(s) >= Len(prefix) /\ SubSeq(s, 1, Len(prefix)) = prefix

\* int(text) succeeds: optional surrounding whitespace, an optional sign, digits
IsIntText(s) ==
    LET t == Strip(s)
        body == IF t # <<>> /\ t[1] \in {"+", "-"} THEN Tail(t) ELSE t
    IN body # <<>> /\ \A i \in 1..Len(body) : body[i] \in DigitChars

RECURSIVE DigitsValue(_)
DigitsValue(body) ==
    IF body = <<>> THEN 0
    ELSE 10 * DigitsValue(SubSeq(body, 1, Len(body) - 1)) + DigitValue(body[Len(body)])

\* the value of int(text), for a text int() accepts
IntOf(s) ==
    LET t == Strip(s)
    IN IF t[1] = "-" THEN 0 - DigitsValue(Tail(t))
       ELSE IF t[1] = "+" THEN DigitsValue(Tail(t))
       ELSE DigitsValue(t)

\* (a variant of try_int that knows no sign)
try_int_unsigned(v) ==
    IF v.t = "str" /\ v.s # <<>> /\ \A i \in 1..Len(v.s) : v.s[i] \in DigitChars
    THEN IntVal(DigitsValue(v.s)) ELSE v

\* lines 122-124: a str that int() accepts becomes that int, anything else stays
try_int(v) == IF v.t = "str" /\ IsIntText(v.s) THEN IntVal(IntOf(v.s)) ELSE v

(***************************************************************************)
(* _parse_record_options                                                   *)
(***************************************************************************)
\* option.split(':', 1), or the bare flag
OptionPair(option) ==
    LET colons == {i \in 1..Len(option) : option[i] = ":"}
    IN IF colons # {}
       THEN [k |-> SubSeq(option, 1, SetMin(colons) - 1),
             v |-> Str(SubSeq(option, SetMin(colons) + 1, Len(option)))]
       ELSE [k |-> option, v |-> True]

RECURSIVE OptionsLoop(_, _, _)
OptionsLoop(ret, option_list, i) ==
    IF i > Len(option_list) THEN ret
    ELSE LET kv == OptionPair(option_list[i])
         IN OptionsLoop(Update(ret, [k \in {kv.k} |-> kv.v]), option_list, i + 1)

_parse_record_options(options) == OptionsLoop(EmptyDict, Split(Strip(options)), 1)

(***************************************************************************)
(* parse_record                                                            *)
(***************************************************************************)
\* (a variant of record_map that tries the query pattern before the others)
record_map_query_first == <<
    [regex |-> _re_query_record, RecordClass |-> "query"],
    [regex |-> _re_marker_record, RecordClass |-> "marker"],
    [regex |-> _re_command_record, RecordClass |-> "command"],
    [regex |-> _re_insert_record, RecordClass |-> "insert"],
    [regex |-> _re_update_record, RecordClass |-> "update"],
    [regex |-> _re_remove_record, RecordClass |-> "remove"],
    [regex |-> _re_getmore_record, RecordClass |-> "get_more"] >>

record_map == <<
    [regex |-> _re_marker_record, RecordClass |-> "marker"],
    [regex |-> _re_command_record, RecordClass |-> "command"],
    [regex |-> _re_query_record, RecordClass |-> "query"],
    [regex |-> _re_insert_record, RecordClass |-> "insert"],
    [regex |-> _re_update_record, RecordClass |-> "update"],
    [regex |-> _re_remove_record, RecordClass |-> "remove"],
    [regex |-> _re_getmore_record, RecordClass |-> "get_more"] >>

\* a record: its class (record_type) and the dict it is; exc names the exception
\* parse_record raised instead of returning ("" when it returned)
Returned(record_type, d) == [exc |-> "", record_type |-> record_type, d |-> d]
Raised(exc) == [exc |-> exc, record_type |-> "", d |-> EmptyDict]

\* of the tries <<i, match>> of the patterns of record_map, the first that matched;
\* <<0, <<>>>> when none did
FirstHit(tries) ==
    LET hits == {t \in tries : t[2] # <<>>}
    IN IF hits = {} THEN <<0, <<>>>> ELSE CHOOSE t \in hits : \A q \in hits : t[1] <= q[1]

\* lines 109-111: RecordClass(record_source) updated with match.groupdict()
BuildRecord(record_source, e, results) ==
    Returned(e.RecordClass, Update(record_source, [g \in DOMAIN results |-> Str(results[g])]))

\* lines 113-114: an UnknownRecord when no pattern matched (or the record is empty)
OrUnknown(record_source, hit) ==
    IF hit[1] = 0 THEN Returned("unknown", record_source)
    ELSE IF DOMAIN record_source = {}
              /\ GroupNames(record_map[hit[1]].regex) = {}
         THEN Returned("unknown", record_source)
    ELSE BuildRecord(record_source, record_map[hit[1]],
                     GroupDict(record_map[hit[1]].regex, record_source[k_info].s, hit[2]))

\* lines 105-114: the record of the first pattern of record_map that info matches
FindRecord(record_source) ==
    OrUnknown(record_source,
              FirstHit({<<i, Search(record_map[i].regex, record_source[k_info].s)>> :
                          i \in 1..Len(record_map)}))

\* lines 116-119, for the keys of record.keys() that start with 'options', in the
\* order record.keys() gives them
RECURSIVE PopOptions(_, _, _)
PopOptions(record, order, i) ==
    IF i > Len(order) THEN Returned(record.record_type, record.d)
    ELSE LET options == record.d[order[i]]
         IN IF options.t # "str" THEN Raised("AttributeError")
            ELSE PopOptions(
                   Returned(record.record_type,
                            Update(Without(record.d, order[i]), _parse_record_options(options.s))),
                   order, i + 1)

\* lines 121-124, reached when the loop of lines 116-119 raised nothing
ConvertInts(record) ==
    IF record.exc # "" THEN record
    ELSE Returned(record.record_type, [k \in DOMAIN record.d |-> try_int(record.d[k])])

Orderings(S) == {o \in [1..Cardinality(S) -> S] : \A i, j \in DOMAIN o : o[i] = o[j] => i = j}

\* The orders in which record.keys() can give the option keys of the record built
\* from record_source: a dict gives its keys in the order of its hash table, which
\* depends on every key of the dict and on the interpreter.
KeyOrders(record_source) ==
    IF k_info \notin DOMAIN record_source \/ record_source[k_info].t # "str" THEN {<<>>}
    ELSE Orderings({k \in DOMAIN FindRecord(record_source).d : StartsWith(k, k_options)})

parse_record(record_source, order) ==
    IF k_info \notin DOMAIN record_source THEN Raised("KeyError")
    ELSE IF record_source[k_info].t # "str" THEN Raised("TypeError")
    ELSE ConvertInts(PopOptions(FindRecord(record_source), order, 1))

(***************************************************************************)
(* The store (the database and its system.profile collection) and the      *)
(* clock that stamps its entries                                           *)
(***************************************************************************)
\* pymongo.OFF, pymongo.SLOW_ONLY, pymongo.ALL
Levels == {"OFF", "SLOW_ONLY", "ALL"}
ALL == "ALL"

None == [t |-> "None", s |-> <<>>, n |-> 0, d |-> 0, u |-> 0]

\* truth value of a Python value (if x: ...)
Truthy(v) ==
    CASE v.t = "None" -> FALSE
      [] v.t = "str" -> v.s # <<>>
      [] v.t = "int" -> v.n # 0
      [] v.t = "float" -> v.n # 0 \/ v.u # 0
      [] OTHER -> TRUE

\* dict.get(k)
Get(f, k) == IF k \in DOMAIN f THEN f[k] ELSE None

SecondsPerDay == 86400
MicrosPerSecond == 1000000

\* datetime + timedelta(seconds = sec, microseconds = us)
AddTime(ts, sec, us) ==
    LET u == ts.u + us
        n == ts.n + sec + (u \div MicrosPerSecond)
    IN Datetime(ts.d + (n \div SecondsPerDay), n % SecondsPerDay, u % MicrosPerSecond)

\* a < b on datetimes
Before(a, b) ==
    \/ a.d < b.d
    \/ a.d = b.d /\ a.n < b.n
    \/ a.d = b.d /\ a.n = b.n /\ a.u < b.u

\* new_ts - prev_ts: a timedelta, normalised to 0 <= seconds < 86400 and
\* 0 <= microseconds < 1000000, the sign carried by days
TimeDelta(new_ts, prev_ts) ==
    LET total_u == new_ts.u - prev_ts.u
        total_n == new_ts.n - prev_ts.n + (IF total_u < 0 THEN -1 ELSE 0)
    IN [days |-> new_ts.d - prev_ts.d + (IF total_n < 0 THEN -1 ELSE 0),
        seconds |-> IF total_n < 0 THEN total_n + SecondsPerDay ELSE total_n,
        microseconds |-> IF total_u < 0 THEN total_u + MicrosPerSecond ELSE total_u]

(***************************************************************************)
(* Inputs: the info texts of profiler entries, built from their parts      *)
(***************************************************************************)
MaxEntries == 3
MaxSessions == 2

DbNames == {<<"a">>, <<"1", "2">>}
CollNames == {<<"b">>, <<"7">>}
Doc == <<"{", " ", "x", ":", " ", "1", " ", "}">>
Frags == { <<>>,
           <<"n", ":", "5">>,
           <<"n", ":", "1", "2", "a", " ", "e">>,
           <<"d", "b", ":", "z">>,
           <<"n", ":", "6", " ", "n", ":", "-", "7", " ", "t", ":", "1", ":", "2">> }
MarkerTexts == {<<"p">>}

Shape(k, db, coll, o1, o2, txt) ==
    [k |-> k, db |-> db, coll |-> coll, o1 |-> o1, o2 |-> o2, txt |-> txt]

Shapes ==
    {Shape("query", db, coll, o1, o2, <<>>) :
        db \in DbNames, coll \in CollNames, o1 \in Frags, o2 \in Frags}
    \cup {Shape(k, db, <<>>, o1, <<"n", ":", "5">>, <<"1">>) :
        k \in {"command", "command_query"}, db \in DbNames, o1 \in Frags}
    \cup {Shape("marker", db, <<>>, o1, <<>>, txt) :
        db \in DbNames, o1 \in {<<>>, <<"n", ":", "5">>}, txt \in MarkerTexts}
    \cup {Shape("insert", db, coll, <<>>, <<>>, <<>>) : db \in DbNames, coll \in CollNames}
    \cup {Shape(k, db, <<"b">>, o1, <<>>, <<>>) :
        k \in {"update", "remove"}, db \in DbNames, o1 \in Frags}
    \cup {Shape("get_more", <<"a">>, coll, o1, o2, <<>>) :
        coll \in CollNames, o1 \in Frags, o2 \in Frags}
    \cup {Shape("other", <<>>, <<>>, <<>>, <<>>, txt) :
        txt \in {<<"f", "o", "o">>, <<"1", "2">>, <<"q", "u", "e", "r", "y", " ", "a">>}}
    \cup {Shape("noinfo", <<>>, <<>>, <<>>, <<>>, <<>>)}

\* the info text the server writes for an operation of shape sh
InfoText(sh) ==
    CASE sh.k = "query" ->
           w_query_sp \o sh.db \o w_dot \o sh.coll \o w_sp \o sh.o1 \o w_nl
           \o w_query_colon \o Doc \o w_sp \o sh.o2
      [] sh.k = "command" ->
           w_query_sp \o sh.db \o w_dot \o w_cmd \o sh.txt \o w_command \o Doc
           \o w_sp \o sh.o1
      [] sh.k = "command_query" ->
           w_query_sp \o sh.db \o w_dot \o w_cmd \o sh.txt \o w_command \o Doc
           \o w_sp \o sh.o1 \o w_nl \o w_query_colon \o Doc \o w_sp \o sh.o2
      [] sh.k = "marker" ->
           w_query_sp \o sh.db \o w_dot \o w_marker \o w_sp \o sh.o1 \o w_nl
           \o w_marker_q \o sh.txt \o w_marker_end
      [] sh.k = "insert" -> w_insert \o sh.db \o w_dot \o sh.coll
      [] sh.k = "update" ->
           w_update \o sh.db \o w_dot \o sh.coll \o w_sp_query \o Doc \o w_sp \o sh.o1
      [] sh.k = "remove" ->
           w_remove \o sh.db \o w_dot \o sh.coll \o w_sp_query \o Doc \o w_sp \o sh.o1
      [] sh.k = "get_more" ->
           w_getmore \o sh.db \o w_dot \o sh.coll \o w_sp \o sh.o1 \o w_getMore
           \o Doc \o w_sp \o sh.o2
      [] OTHER -> sh.txt

\* the fields an entry carries besides info
Extras ==
    { EmptyDict,
      [k \in {k_ts} |-> Datetime(0, 1, 0)],
      [k \in {k_ts, k_millis} |-> IF k = k_ts THEN Datetime(0, 1, 0) ELSE Str(<<"1", "2">>)],
      [k \in {k_millis, k_options} |-> IF k = k_millis THEN IntVal(3) ELSE Str(<<"n", ":", "5">>)] }

Entry(sh, extra) ==
    IF sh.k = "noinfo" THEN extra
    ELSE Update(extra, [k \in {k_info} |-> Str(InfoText(sh))])

(***************************************************************************)
(* State                                                                   *)
(***************************************************************************)
VARIABLES
    level,                \* the store's profiling level
    profile,              \* the entries of db.system.profile, oldest first
    now,                  \* the store's clock
    pc,                   \* where the MongoProfiler object is
    sessions,             \* how many times __enter__ has been called
    prev_level,           \* self.prev_level
    timestamp_threshold,  \* self.timestamp_threshold
    records,              \* self.records
    stats,                \* the entries the cursor of __exit__ yields
    pos,                  \* the next entry of stats the loop of __exit__ takes
    prev_ts,              \* the local prev_ts of __exit__
    base,                 \* len(self.records) when the running __exit__ began
    restores,             \* set_profiling_level calls of the running __exit__
    exc,                  \* the exception the last call raised ("" for none)
    shape,                \* parse_record alone: the shape of its argument
    record_source,        \* parse_record alone: its argument
    ret                   \* parse_record alone: its outcome

harness == <<level, profile, now, pc, sessions, prev_level,
             timestamp_threshold, records, stats, pos, prev_ts, base, restores,
             exc>>
classifier == <<shape, record_source, ret>>
vars == <<harness, classifier>>

Pending == Raised("(not called)")

\* the entries the store writes in the harness specification
\* (stamped: whether the entry carries ts)
HarnessEntries ==
    { [sh |-> Shape("query", <<"a">>, <<"b">>, <<"n", ":", "5">>, <<>>, <<>>), stamped |-> TRUE],
      [sh |-> Shape("other", <<>>, <<>>, <<>>, <<>>, <<"f", "o", "o">>), stamped |-> FALSE],
      [sh |-> Shape("noinfo", <<>>, <<>>, <<>>, <<>>, <<>>), stamped |-> TRUE] }
\* the time that passes between two operations
Elapsed == {[sec |-> 2, us |-> 500000], [sec |-> 90000, us |-> 250000]}

HarnessInit ==
    /\ level \in Levels
    /\ profile = <<>>
    /\ now = Datetime(0, 86399, 0)
    /\ pc = "init"
    /\ sessions = 0
    /\ prev_level = "OFF"
    /\ timestamp_threshold = None
    /\ records = <<>>
    /\ stats = <<>>
    /\ pos = 1
    /\ prev_ts = None
    /\ base = 0
    /\ restores = 0
    /\ exc = ""

ClassifierIdle ==
    /\ shape = Shape("noinfo", <<>>, <<>>, <<>>, <<>>, <<>>)
    /\ record_source = EmptyDict
    /\ ret = Pending

(***************************************************************************)
(* The store                                                               *)
(***************************************************************************)
\* the store profiles an operation some time after the last one: an entry with
\* the operation's info, stamped with the clock
Operation ==
    /\ pc # "draining"
    /\ level # "OFF"
    /\ Len(profile) < MaxEntries
    /\ \E e \in HarnessEntries, dt \in Elapsed :
         /\ now' = IF e.stamped THEN AddTime(now, dt.sec, dt.us) ELSE now
         /\ profile' = Append(profile,
              Entry(e.sh, IF e.stamped THEN [k \in {k_ts} |-> now'] ELSE EmptyDict))
    /\ UNCHANGED <<level, pc, sessions, prev_level, timestamp_threshold,
                   records, stats, pos, prev_ts, base, restores, exc>>
    /\ UNCHANGED classifier

(***************************************************************************)
(* MongoProfiler                                                           *)
(***************************************************************************)
Stamped(entries) == {i \in 1..Len(entries) : k_ts \in DOMAIN entries[i]}

\* find().sort([('ts', DESCENDING)]).limit(1): an entry with the greatest ts,
\* entries without ts last
Newest(entries) ==
    IF Stamped(entries) = {} THEN entries[1]
    ELSE entries[CHOOSE i \in Stamped(entries) :
                    \A j \in Stamped(entries) : ~Before(entries[i][k_ts], entries[j][k_ts])]

CanEnter == pc \in {"init", "enter_raised", "exited", "exit_raised"} /\ sessions < MaxSessions

\* __enter__, lines 38-42 with get_timestamp_threshold, lines 44-47
Enter ==
    /\ CanEnter
    /\ (IF profile = <<>> THEN TRUE ELSE k_ts \in DOMAIN Newest(profile))
    /\ prev_level' = level
    /\ timestamp_threshold' = IF profile = <<>> THEN None ELSE Newest(profile)[k_ts]
    /\ level' = ALL
    /\ pc' = "entered"
    /\ exc' = ""
    /\ sessions' = sessions + 1
    /\ UNCHANGED <<profile, now, records, stats, pos, prev_ts, base, restores>>
    /\ UNCHANGED classifier

\* __enter__ when prev_records[0] has no 'ts': line 47 raises KeyError
EnterRaises ==
    /\ CanEnter
    /\ (IF profile = <<>> THEN FALSE ELSE k_ts \notin DOMAIN Newest(profile))
    /\ prev_level' = level
    /\ pc' = "enter_raised"
    /\ exc' = "KeyError"
    /\ sessions' = sessions + 1
    /\ UNCHANGED <<level, profile, now, timestamp_threshold, records, stats,
                   pos, prev_ts, base, restores>>
    /\ UNCHANGED classifier

\* mark, lines 76-79: a find on phony_mongoprofile_marker, which the store profiles
Mark ==
    /\ pc = "entered"
    /\ Len(profile) < MaxEntries
    /\ \E text \in MarkerTexts :
         profile' = Append(profile,
             Entry(Shape("marker", <<"a">>, <<>>, <<>>, <<>>, text), [k \in {k_ts} |-> now]))
    /\ UNCHANGED <<level, now, pc, sessions, prev_level, timestamp_threshold,
                   records, stats, pos, prev_ts, base, restores, exc>>
    /\ UNCHANGED classifier

\* get_records, lines 73-74: returns self.records and changes nothing
get_records == records
GetRecords ==
    /\ pc # "draining"
    /\ UNCHANGED harness
    /\ UNCHANGED classifier

SelectSeq2(seq, keep) ==
    LET F[i \in 0..Len(seq)] ==
          IF i = 0 THEN <<>>
          ELSE IF keep[i] THEN Append(F[i - 1], seq[i]) ELSE F[i - 1]
    IN F[Len(seq)]

\* find(filt).skip(skip), lines 50-57
Fetch(entries, threshold, level_before) ==
    LET found == IF Truthy(threshold)
                 THEN SelectSeq2(entries,
                        [i \in 1..Len(entries) |->
                            /\ k_ts \in DOMAIN entries[i]
                            /\ Before(threshold, entries[i][k_ts])])
                 ELSE entries
        skip == IF level_before = ALL THEN 2 ELSE 0
    IN SubSeq(found, skip + 1, Len(found))

\* __exit__ up to its loop, lines 50-58
ExitFetch ==
    /\ pc = "entered"
    /\ stats' = Fetch(profile, timestamp_threshold, prev_level)
    /\ prev_ts' = None
    /\ pos' = 1
    /\ base' = Len(records)
    /\ restores' = 0
    /\ pc' = "draining"
    /\ UNCHANGED <<level, profile, now, sessions, prev_level,
                   timestamp_threshold, records, exc>>
    /\ UNCHANGED classifier

\* the store fails the query of line 59: the error leaves __exit__
ExitFetchRaises ==
    /\ pc = "entered"
    /\ stats' = <<>>
    /\ prev_ts' = None
    /\ pos' = 1
    /\ base' = Len(records)
    /\ restores' = 0
    /\ pc' = "exit_raised"
    /\ exc' = "StoreError"
    /\ UNCHANGED <<level, profile, now, sessions, prev_level,
                   timestamp_threshold, records>>
    /\ UNCHANGED classifier

\* the float of line 71
TsDiff(diff) == Float(diff.seconds, diff.microseconds)

\* (a variant of _setup_ts_diff that does not look at prev_ts)
_setup_ts_diff_unguarded(record, prev, new_ts) ==
    IF Truthy(new_ts)
    THEN Returned(record.record_type,
           Update(record.d, [k \in {k_ts_diff} |-> TsDiff(TimeDelta(new_ts, prev))]))
    ELSE record

\* _setup_ts_diff, lines 67-71: the record with ts_diff set, when it is set
_setup_ts_diff(record, prev, new_ts) ==
    IF Truthy(prev) /\ Truthy(new_ts)
    THEN IF prev.t = "datetime" /\ new_ts.t = "datetime"
         THEN Returned(record.record_type,
                Update(record.d, [k \in {k_ts_diff} |-> TsDiff(TimeDelta(new_ts, prev))]))
         ELSE Raised("TypeError")
    ELSE record

\* lines 62-64, when lines 60-61 raised nothing: r is the record parse_record
\* returned and r2 the same record after _setup_ts_diff
LoopTail(r, r2) ==
    IF r2.exc # ""
    THEN /\ pc' = "exit_raised"
         /\ exc' = r2.exc
         /\ UNCHANGED <<records, pos, prev_ts>>
    ELSE /\ records' = Append(records, r2)
         /\ prev_ts' = IF Truthy(Get(r.d, k_ts)) THEN r.d[k_ts] ELSE prev_ts
         /\ pos' = pos + 1
         /\ UNCHANGED <<pc, exc>>

\* one turn of the loop of __exit__, lines 59-64, r being what parse_record did
LoopBody(r) ==
    IF r.exc # ""
    THEN /\ pc' = "exit_raised"
         /\ exc' = r.exc
         /\ UNCHANGED <<records, pos, prev_ts>>
    ELSE LoopTail(r, _setup_ts_diff(r, prev_ts, Get(r.d, k_ts)))

\* (the keys of the record's dict come in any of the orders a dict can have)
ExitLoop ==
    /\ pc = "draining"
    /\ pos <= Len(stats)
    /\ \E order \in KeyOrders(stats[pos]) : LoopBody(parse_record(stats[pos], order))
    /\ UNCHANGED <<level, profile, now, sessions, prev_level,
                   timestamp_threshold, stats, base, restores>>
    /\ UNCHANGED classifier

\* the end of __exit__, line 65
ExitRestore ==
    /\ pc = "draining"
    /\ pos > Len(stats)
    /\ level' = prev_level
    /\ restores' = restores + 1
    /\ pc' = "exited"
    /\ UNCHANGED <<profile, now, sessions, prev_level, timestamp_threshold,
                   records, stats, pos, prev_ts, base, exc>>
    /\ UNCHANGED classifier

Init == HarnessInit /\ ClassifierIdle

Next ==
    \/ Operation
    \/ Enter
    \/ EnterRaises
    \/ Mark
    \/ GetRecords
    \/ ExitFetch
    \/ ExitFetchRaises
    \/ ExitLoop
    \/ ExitRestore

Spec == Init /\ [][Next]_vars

(***************************************************************************)
(* parse_record alone: called once on an entry drawn from the inputs       *)
(***************************************************************************)
ParseInit ==
    /\ HarnessInit
    /\ level = "OFF"
    /\ shape \in Shapes
    /\ \E extra \in Extras : record_source = Entry(shape, extra)
    /\ ret = Pending

ParseRecord ==
    /\ ret = Pending
    /\ \E order \in KeyOrders(record_source) : ret' = parse_record(record_source, order)
    /\ UNCHANGED <<shape, record_source>>
    /\ UNCHANGED harness

ParseNext == ParseRecord

SpecParse == ParseInit /\ [][ParseNext]_vars
(***************************************************************************)
(* Properties                                                              *)
(***************************************************************************)
ExitOver == pc \in {"exited", "exit_raised"}

\* the records the last __exit__ appended, and the entries they came from
Appended == Len(records) - base

\* C1: once __exit__ is over, normally or by an error, it has set the store's
\* profiling level back to the level recorded by __enter__, exactly once.
C1_LevelRestoredOnExit == ExitOver => (restores = 1 /\ level = prev_level)

\* C2: an entry without info is classified as an unknown record that carries
\* the entry's fields, and the drain that meets it goes on: once __exit__ is
\* over, every fetched entry without info has its unknown record in the result.
C2_DrainSurvivesMissingInfo ==
    ExitOver =>
        \A i \in 1..Len(stats) :
            k_info \notin DOMAIN stats[i] =>
                /\ Appended >= i
                /\ records[base + i].record_type = "unknown"
                /\ \A k \in DOMAIN stats[i] : k \in DOMAIN records[base + i].d

Catalog ==
    {_re_marker_record, _re_command_record, _re_query_record, _re_insert_record,
     _re_update_record, _re_remove_record, _re_getmore_record}

Called == ret # Pending
HasInfo == k_info \in DOMAIN record_source
Matches(pat) == Search(pat, record_source[k_info].s) # <<>>

\* C3: for an entry whose info matches none of the seven patterns, parse_record
\* returns an unknown record with exactly the field names of the entry.
C3_UnknownKeepsFieldNames ==
    (Called /\ HasInfo /\ \A pat \in Catalog : ~Matches(pat)) =>
        /\ ret.exc = ""
        /\ ret.record_type = "unknown"
        /\ DOMAIN ret.d = DOMAIN record_source

\* C4: for an info of the query shape, parse_record returns a query record whose
\* db, collection and query are the texts the pattern captured, whatever the
\* options fragments and the names are.
C4_QueryFieldsAreCaptured ==
    (Called /\ shape.k = "query") =>
        /\ ret.exc = ""
        /\ ret.record_type = "query"
        /\ ret.d[k_db] = Str(shape.db)
        /\ ret.d[k_collection] = Str(shape.coll)
        /\ ret.d[k_query] = Str(Doc)

\* the kind the priority order Marker, Command, Query, Insert, Update, Remove,
\* GetMore gives the info of record_source
KindByPriority ==
    IF Matches(_re_marker_record) THEN "marker"
    ELSE IF Matches(_re_command_record) THEN "command"
    ELSE IF Matches(_re_query_record) THEN "query"
    ELSE IF Matches(_re_insert_record) THEN "insert"
    ELSE IF Matches(_re_update_record) THEN "update"
    ELSE IF Matches(_re_remove_record) THEN "remove"
    ELSE IF Matches(_re_getmore_record) THEN "get_more"
    ELSE "unknown"

\* C5: the record parse_record returns has the kind of the first pattern, in the
\* order Marker, Command, Query, Insert, Update, Remove, GetMore, that matches
\* info, and the patterns after it contribute no field: an info both the command
\* and the query pattern match gives a command record, one both the marker and
\* the query pattern match a marker record, neither with collection or query.
C5_FirstPatternWins ==
    (Called /\ ret.exc = "") =>
        /\ ret.record_type = KindByPriority
        /\ ret.record_type = (CASE shape.k = "command_query" -> "command"
                                [] shape.k = "other" -> "unknown"
                                [] OTHER -> shape.k)
        /\ shape.k = "command_query" =>
             /\ ret.record_type = "command"
             /\ ret.d[k_command] = Str(Doc)
             /\ k_collection \notin DOMAIN ret.d
             /\ k_query \notin DOMAIN ret.d
        /\ shape.k = "marker" =>
             /\ ret.record_type = "marker"
             /\ ret.d[k_text] = Str(shape.txt)
             /\ k_collection \notin DOMAIN ret.d
             /\ k_query \notin DOMAIN ret.d

C5_Witness ==
    /\ Called /\ ret.exc = ""
    /\ shape.k = "command_query"
    /\ Matches(_re_command_record) /\ Matches(_re_query_record)
    /\ ret.record_type = "command"

\* the difference a - b of two datetimes in seconds, as the float it is
SecondsBetween(a, b) ==
    LET us == a.u - b.u
        whole == (a.d - b.d) * SecondsPerDay + (a.n - b.n)
    IN IF us < 0 THEN Float(whole - 1, us + MicrosPerSecond) ELSE Float(whole, us)

\* the entries before the i-th of the drain that carry ts
StampedBefore(i) == {j \in 1..(i - 1) : k_ts \in DOMAIN stats[j]}

\* C6: the ts_diff of a record of a drain is the difference in seconds between
\* its timestamp and the timestamp of the last record before it, in the same
\* drain, that carries one; it is not negative.
C6_TsDiffIsTheDifference ==
    \A i \in 1..Appended :
        k_ts_diff \in DOMAIN records[base + i].d =>
            /\ StampedBefore(i) # {}
            /\ records[base + i].d[k_ts_diff] =
                 SecondsBetween(stats[i][k_ts], stats[SetMax(StampedBefore(i))][k_ts])
            /\ records[base + i].d[k_ts_diff].n >= 0

\* C7: a record of a drain has ts_diff exactly when its entry carries ts and an
\* earlier entry of the same drain carries ts (an entry without ts in between
\* changes nothing); the only record of a drain has none.
C7_TsDiffPresence ==
    /\ Appended <= Len(stats)
    /\ \A i \in 1..Appended :
         k_ts_diff \in DOMAIN records[base + i].d
           <=> (k_ts \in DOMAIN stats[i] /\ StampedBefore(i) # {})
    /\ (ExitOver /\ Appended = 1) => k_ts_diff \notin DOMAIN records[base + 1].d

C7_Witness ==
    /\ pc = "exited"
    /\ Appended = 3
    /\ k_ts \in DOMAIN stats[1] /\ k_ts \notin DOMAIN stats[2] /\ k_ts \in DOMAIN stats[3]
    /\ k_ts_diff \notin DOMAIN records[base + 1].d
    /\ k_ts_diff \notin DOMAIN records[base + 2].d
    /\ k_ts_diff \in DOMAIN records[base + 3].d

\* what the option fragments of the inputs stand for
k_n == <<"n">>
k_e == <<"e">>
k_t == <<"t">>
ExpectedOptions(frag) ==
    CASE frag = <<>> -> EmptyDict
      [] frag = <<"n", ":", "5">> -> [k \in {k_n} |-> IntVal(5)]
      [] frag = <<"n", ":", "1", "2", "a", " ", "e">> ->
           [k \in {k_n, k_e} |-> IF k = k_n THEN Str(<<"1", "2", "a">>) ELSE True]
      [] frag = <<"d", "b", ":", "z">> -> [k \in {k_db} |-> Str(<<"z">>)]
      [] frag = <<"n", ":", "6", " ", "n", ":", "-", "7", " ", "t", ":", "1", ":", "2">> ->
           [k \in {k_n, k_t} |-> IF k = k_n THEN IntVal(0 - 7) ELSE Str(<<"1", ":", "2">>)]

\* C8: when options1 and options2 define the same key, the record holds the
\* value of options2, and neither options1 nor options2 is left in the record.
C8_LaterFragmentWins ==
    (Called /\ ret.exc = "" /\ shape.k \in {"query", "get_more"}) =>
        /\ k_options1 \notin DOMAIN ret.d
        /\ k_options2 \notin DOMAIN ret.d
        /\ \A k \in DOMAIN ExpectedOptions(shape.o1) \cap DOMAIN ExpectedOptions(shape.o2) :
             ret.d[k] = ExpectedOptions(shape.o2)[k]

\* the fragments parse_record merges into the record of record_source: those the
\* pattern captures, and a field options of the entry itself unless the pattern
\* captures a group of that name
OwnOptions ==
    IF k_options \in DOMAIN record_source /\ record_source[k_options].t = "str"
    THEN {record_source[k_options].s} ELSE {}
MergedFragments ==
    CASE shape.k \in {"query", "get_more"} -> OwnOptions \cup {shape.o1, shape.o2}
      [] shape.k \in {"command", "command_query", "update", "remove"} -> {shape.o1}
      [] OTHER -> OwnOptions

\* an optionally signed run of digits
WritesAnInteger(s) ==
    LET body == IF s # <<>> /\ s[1] \in {"+", "-"} THEN Tail(s) ELSE s
    IN body # <<>> /\ \A i \in 1..Len(body) : body[i] \in DigitChars

\* C9: in the record parse_record returns no text that writes an integer is
\* left as text: fields of the entry ("12" becomes 12, an int and a timestamp
\* stay), fields the pattern captured (ntoreturn) and fields of the option
\* fragments (n:5 gives 5, n:-7 gives -7, n:12a stays "12a", the bare e is true).
C9_IntegersCoerced ==
    (Called /\ ret.exc = "") =>
        /\ \A k \in DOMAIN ret.d : ret.d[k].t = "str" => ~WritesAnInteger(ret.d[k].s)
        /\ k_millis \in DOMAIN record_source =>
             ret.d[k_millis] = (IF record_source[k_millis] = Str(<<"1", "2">>)
                                THEN IntVal(12) ELSE record_source[k_millis])
        /\ k_ts \in DOMAIN record_source => ret.d[k_ts] = record_source[k_ts]
        /\ HasInfo =>
             ret.d[k_info] = (IF record_source[k_info] = Str(<<"1", "2">>)
                              THEN IntVal(12) ELSE record_source[k_info])
        /\ shape.k \in {"command", "command_query"} => ret.d[k_ntoreturn] = IntVal(1)
        /\ \A f \in MergedFragments : \A k \in DOMAIN ExpectedOptions(f) :
             ret.d[k] \in {ExpectedOptions(g)[k] :
                             g \in {h \in MergedFragments : k \in DOMAIN ExpectedOptions(h)}}

C9_Witness ==
    /\ Called /\ ret.exc = ""
    /\ shape.k = "update"
    /\ k_millis \in DOMAIN record_source /\ record_source[k_millis].t = "str"
    /\ ret.d[k_millis] = IntVal(12)
    /\ k_n \in DOMAIN ret.d /\ ret.d[k_n] = IntVal(0 - 7)
    /\ k_t \in DOMAIN ret.d /\ ret.d[k_t] = Str(<<"1", ":", "2">>)

\* C10: once __exit__ is over, it has appended one record for every entry it
\* fetched, after the records the object held before.
C10_OneRecordPerFetchedEntry == ExitOver => Appended = Len(stats)

\* (the part of C10 that does not depend on how __exit__ ends: no step removes,
\* reorders or replaces a record the object holds)
RecordsOnlyGrow ==
    [][Len(records') >= Len(records) /\ SubSeq(records', 1, Len(records)) = records]_vars
====
